---- MODULE Spec2Model ----
(***************************************************************************)
(* A model of the three drivers of bulk-downloader-for-reddit:             *)
(*   RedditDownloader.download   (src/bdfr/downloader.py)                  *)
(*   Archiver.download           (src/bdfr/archiver.py)                    *)
(*   RedditCloner.download       (src/bdfr/cloner.py)                      *)
(* with the per-item operations they call, _download_submission and        *)
(* write_entry, the content hash index (master_hash_list) and the output   *)
(* tree.                                                                   *)
(*                                                                         *)
(* Reading notes on the source:                                            *)
(*  - archiver.py:44-45 breaks the `if` condition after `or` without a     *)
(*    continuation; the model reads the two lines as the one condition     *)
(*    they spell (the same one as downloader.py:71-73).                    *)
(*  - downloader.py:117 names `requests`, which the file never imports:    *)
(*    when find_resources raises anything but SiteDownloaderError, looking *)
(*    up the second except clause raises NameError.                        *)
(*  - archiver.py:57 catches PrawcoreException before archiver.py:60       *)
(*    names its subclass TooManyRequests: the first matching clause wins.  *)
(*  - cloner.py:26 sets retry once per generator, not once per item.       *)
(***************************************************************************)
EXTENDS Integers, Sequences, FiniteSets, TLC

VARIABLES
    driver,                  \* the class whose download() runs
    args,                    \* self.args, the Configuration
    excluded_submission_ids, \* self.excluded_submission_ids
    nlists,                  \* len(self.reddit_lists)
    g,                       \* index of the generator the outer for is at
    taken,                   \* items the current generator has yielded
    submission,              \* the loop variable `submission`
    retry,                   \* the local `retry`
    pc,                      \* "scan" | "loop" | "item" | "done" | "raised"
    error,                   \* the exception download() raised, or NoExc
    master_hash_list,        \* self.master_hash_list: hash -> path
    fs,                      \* the output tree: path -> content
    dirs,                    \* the directories of the output tree
    archive,                 \* ids whose archive record is on disk
    trace,                   \* events since the generator was last advanced
    run,                     \* 1, or 2 for a second download() over `feed`
    feed,                    \* the posts the first run was given, in order
    pool                     \* the Pool of scan_existing_files and its map

vars == <<driver, args, excluded_submission_ids, nlists, g, taken, submission,
          retry, pc, error, master_hash_list, fs, dirs, archive, trace, run,
          feed, pool>>

----------------------------------------------------------------------------
(* Bounds of the model *)

MaxGenerators == 2
MaxItems == 2
MaxResources == 2
MaxWorkers == 2     \* of the 15 worker processes of Pool(15)

(* Program constants *)

ArchiverMaxRetries == 2
ClonerMaxRetries == 3
BaseDelay == 30
CoolDown == 60

----------------------------------------------------------------------------
(* Values *)

None == "<None>"
NoExc == "<no exception>"
NoFile == "<no file>"
NoPath == "<no path>"

(* Exceptions.  prawcore: TooManyRequests and RequestException are         *)
(* PrawcoreExceptions; praw.exceptions.ClientException is not.             *)
RemoteFaults == {"TooManyRequests", "RequestException", "ClientException"}

IsInstance(exc, cls) ==
    \/ exc = cls
    \/ cls = "PrawcoreException" /\ exc \in {"TooManyRequests", "RequestException"}
    \/ cls = "BulkDownloaderException"
          /\ exc \in {"SiteDownloaderError", "NotADownloadableLinkError"}

(* The first except clause, in source order, that matches; 0 when none.    *)
RECURSIVE FirstClause(_, _, _)
FirstClause(clauses, exc, k) ==
    IF k > Len(clauses) THEN 0
    ELSE IF IsInstance(exc, clauses[k]) THEN k
    ELSE FirstClause(clauses, exc, k + 1)

Handler(clauses, exc) ==
    LET k == FirstClause(clauses, exc, 1) IN
    IF k = 0 THEN "<unhandled>" ELSE clauses[k]

(* Events of the trace.  A call is recorded when it ends, with how it      *)
(* ended.  An event about a resource carries the resource's hash and the   *)
(* path the index held for that hash when line 136 looked it up.           *)
Ev(op, what, held, hash, secs) ==
    [op |-> op, what |-> what, held |-> held, hash |-> hash, secs |-> secs]
Slept(secs) == Ev("sleep", "", "", "", secs)
Called(op, result) == Ev(op, result, "", "", 0)
Recorded(id) == Ev("record", id, "", "", 0)
Skipped(reason) == Ev("skip post", reason, "", "", 0)
(* One pass of a driver's try body: how it ended ("ok" or the exception    *)
(* that left it), the remote fault behind it, and `retry` when it began.   *)
Attempt(result, cause, count) == Ev("attempt", result, cause, "", count)
AdvanceFailed(exc, gen) == Ev("advance failed", exc, "", "", gen)
OnResource(op, path, held, hash) == Ev(op, path, held, hash, 0)

----------------------------------------------------------------------------
(* The output tree and the content hash index *)

Paths == {"out/a/1.jpg", "out/a/2.jpg", "out/b/3.jpg", "out/b/4.gif"}
Contents == {"c1", "c2"}
Hashes == {"h1", "h2"}

Parent(path) == IF path \in {"out/a/1.jpg", "out/a/2.jpg"} THEN "out/a" ELSE "out/b"

(* hashlib.md5(...).hexdigest() of a content *)
md5(content) == IF content = "c1" THEN "h1" ELSE "h2"

EmptyTree == [p \in Paths |-> NoFile]
EmptyIndex == [h \in Hashes |-> NoPath]

(* scan_existing_files: one entry per hash some file has.  The dict keeps, *)
(* for a hash several files share, the file os.walk listed last; the order *)
(* of os.walk is the file system's, so any of them may be the one.         *)
ScanResults(tree) ==
    {m \in [Hashes -> Paths \cup {NoPath}] :
        \A h \in Hashes :
            IF \E p \in Paths : tree[p] # NoFile /\ md5(tree[p]) = h
            THEN m[h] # NoPath /\ tree[m[h]] # NoFile /\ md5(tree[m[h]]) = h
            ELSE m[h] = NoPath}

(* The pool and its one map call: the files os.walk listed, in its order;  *)
(* how many of them the task queue has handed out; the file each worker is *)
(* hashing (0: none); and the results the map has got back, by position    *)
(* ("": none yet).                                                         *)
Workers == 1..MaxWorkers

PoolOver(files) ==
    [files |-> files, handed |-> 0, busy |-> [w \in Workers |-> 0],
     results |-> [i \in 1..Len(files) |-> ""]]

(* No scan is running: it is over, or search_existing is not set. *)
NoPool == PoolOver(<<>>)

(* {res[1]: res[0] for res in results}, from the i-th result on: a later   *)
(* file of the same hash replaces the earlier one.                         *)
RECURSIVE HashList(_, _, _, _)
HashList(files, results, i, hash_list) ==
    IF i > Len(files) THEN hash_list
    ELSE HashList(files, results, i + 1, [hash_list EXCEPT ![results[i]] = files[i]])

(* MapDone as soon as one result is in. *)
MapDoneEarly(p) == \E i \in 1..Len(p.files) : p.results[i] # ""

(* pool.map returns when the result of every file is in. *)
MapDone(p) == \A i \in 1..Len(p.files) : p.results[i] # ""

----------------------------------------------------------------------------
(* Resources and posts *)

Res(dest, content, admit) == [dest |-> dest, content |-> content, admit |-> admit]

R1 == Res("out/a/1.jpg", "c1", TRUE)
R2 == Res("out/a/2.jpg", "c1", TRUE)    \* the bytes of R1 at another path
R3 == Res("out/b/3.jpg", "c2", TRUE)
R4 == Res("out/b/4.gif", "c2", FALSE)   \* download_filter.check_resource rejects it

Catalog == {R1, R2, R3, R4}

(* The resource lists an extractor may return: no resource twice. *)
ContentLists ==
    {c \in UNION {[1..n -> Catalog] : n \in 0..MaxResources} :
        \A i, j \in 1..Len(c) : i # j => c[i] # c[j]}

Post(id, subreddit, author, score, ratio, kind, url_ok, module, content) ==
    [id |-> id, subreddit |-> subreddit, author |-> author, score |-> score,
     upvote_ratio |-> ratio, kind |-> kind, url_ok |-> url_ok,
     module |-> module, content |-> content]

(* `submission = None`: no post is in hand.  A post with no field set. *)
NoPost == Post(None, "", None, 0, 0, "", FALSE, "", <<>>)

(* The faults of one call of the per-item operation: a remote exception    *)
(* raised while the post's attributes are read ("attrs") or by             *)
(* find_resources, and one local fault at the k-th resource.               *)
NoIO == [kind |-> "none", k |-> 0]
IOFaults ==
    {NoIO} \cup [kind : {"fetch", "write", "link"}, k : 1..MaxResources]

NoFault == [fault |-> NoExc, at |-> "", io |-> NoIO]
DownloadFaults ==
    [fault : {NoExc}, at : {""}, io : IOFaults]
    \cup [fault : RemoteFaults, at : {"attrs", "find_resources"}, io : {NoIO}]
    \cup [fault : {"SiteDownloaderError"}, at : {"find_resources"}, io : {NoIO}]

WriteFaults ==
    {NoFault} \cup [fault : RemoteFaults, at : {"attrs", "compile"}, io : {NoIO}]

----------------------------------------------------------------------------
(* RedditDownloader._download_submission *)

(* str.lower() on the subreddit names of the model *)
ToLower(name) == IF name = "Pics" THEN "pics" ELSE name

(* AuthorIgnored without its second disjunct, the test for "DELETED". *)
AuthorIgnoredByName(post) ==
    post.author # None /\ post.author \in args.ignore_user

(* The author test of downloader.py:71-73 and archiver.py:44-45. *)
AuthorIgnored(post) ==
    \/ post.author # None /\ post.author \in args.ignore_user
    \/ post.author = None /\ "DELETED" \in args.ignore_user

(* A limit of the configuration is None or a number: the empty set or the  *)
(* set of the one number.                                                  *)
Unset == {}
Limit(n) == {n}
Value(limit) == CHOOSE n \in limit : TRUE

(* The truth value Python gives a limit in `args.min_score and ...`: None  *)
(* and 0 are both false.                                                   *)
Truthy(limit) == limit # Unset /\ limit # Limit(0)

(* The elif chain of downloader.py:68-99 after the exclusion test: the     *)
(* reason the post is skipped for, or "" when it is admitted.              *)
FilterReason(post) ==
    IF ToLower(post.subreddit) \in args.skip_subreddit THEN "subreddit"
    ELSE IF AuthorIgnored(post) THEN "author"
    ELSE IF Truthy(args.min_score) /\ post.score < Value(args.min_score)
         THEN "min_score"
    ELSE IF Truthy(args.max_score) /\ Value(args.max_score) < post.score
         THEN "max_score"
    ELSE IF \/ /\ Truthy(args.min_score_ratio)
               /\ post.upvote_ratio < Value(args.min_score_ratio)
            \/ /\ Truthy(args.max_score_ratio)
               /\ Value(args.max_score_ratio) < post.upvote_ratio
         THEN "ratio"
    ELSE IF post.kind # "Submission" THEN "not a submission"
    ELSE IF ~post.url_ok THEN "url"
    ELSE ""

(* What one call works on and returns: the tree, the index, the events it  *)
(* adds to the trace and the exception it ends with (NoExc: it returned).  *)
CallState(tree, index, ds, rec) ==
    [fs |-> tree, mhl |-> index, dirs |-> ds, archive |-> rec,
     ev |-> <<>>, exc |-> NoExc, cause |-> NoExc]

(* The remote fault `exc` is raised. *)
Raise(st, exc) == [st EXCEPT !.exc = exc, !.cause = exc]

(* An early `return` (or `break`) after a debug line giving the reason. *)
Skip(st, reason) == [st EXCEPT !.ev = Append(@, Skipped(reason))]

(* `resource_hash in self.master_hash_list` *)
InIndex(index, resource_hash) == index[resource_hash] # NoPath

(* Record with the assignment of line 160 left out. *)
RecordNothing(index, resource_hash, destination) == index

(* self.master_hash_list[resource_hash] = destination *)
Record(index, resource_hash, destination) ==
    [index EXCEPT ![resource_hash] = destination]

(* HardLink that also enters the link's path in the index. *)
HardLinkRecording(st, destination, resource_hash, fails) ==
    [st EXCEPT !.fs[destination] = st.fs[st.mhl[resource_hash]],
               !.ev = Append(@, OnResource("link", destination,
                                           st.mhl[resource_hash], resource_hash)),
               !.mhl = Record(@, resource_hash, destination)]

(* destination.hardlink_to(target): fails when the target is gone. *)
HardLink(st, destination, resource_hash, fails) ==
    LET target == st.mhl[resource_hash] IN
    IF fails \/ st.fs[target] = NoFile
    THEN [st EXCEPT !.exc = "OSError",
                    !.ev = Append(@, OnResource("link failed", destination,
                                                target, resource_hash))]
    ELSE [st EXCEPT !.fs[destination] = st.fs[target],
                    !.ev = Append(@, OnResource("link", destination,
                                                target, resource_hash))]

(* downloader.py:150-161: the bytes are written and the hash recorded.     *)
WriteFile(st, destination, content, resource_hash) ==
    [st EXCEPT !.fs[destination] = content,
               !.ev = Append(@, OnResource("write", destination,
                                           st.mhl[resource_hash], resource_hash)),
               !.mhl = Record(@, resource_hash, destination)]

(* The for loop of downloader.py:119-161 from its k-th pair on.  `return`  *)
(* ends the loop with the state as it is, `continue` goes to k + 1.        *)
RECURSIVE ResourceLoop(_, _, _, _)
ResourceLoop(content, k, st, io) ==
    IF k > Len(content) THEN st
    ELSE
    LET res == content[k]
        destination == res.dest
        resource_hash == md5(res.content)
        made == [st EXCEPT !.dirs = @ \cup {Parent(destination)}]
        faulty(kind) == io.kind = kind /\ io.k = k
    IN
    IF st.fs[destination] # NoFile THEN ResourceLoop(content, k + 1, st, io)
    ELSE IF ~res.admit THEN ResourceLoop(content, k + 1, st, io)
    ELSE IF faulty("fetch")
         THEN [st EXCEPT !.ev = Append(@, OnResource("fetch failed", destination,
                                                     "", resource_hash))]
    ELSE IF InIndex(made.mhl, resource_hash) /\ args.no_dupes
         THEN [made EXCEPT !.ev = Append(@, OnResource("skip", destination,
                                            made.mhl[resource_hash], resource_hash))]
    ELSE IF InIndex(made.mhl, resource_hash) /\ args.make_hard_links
         THEN HardLink(made, destination, resource_hash, faulty("link"))
    ELSE IF faulty("write")
         THEN [made EXCEPT !.ev = Append(@, OnResource("write failed", destination,
                                            made.mhl[resource_hash], resource_hash))]
    ELSE ResourceLoop(content, k + 1,
                      WriteFile(made, destination, res.content, resource_hash), io)

(* find_resources raised `exc`: SiteDownloaderError is logged and the call *)
(* returns; for anything else the clause at line 117 is looked up.         *)
FindResourcesRaised(st, exc) ==
    IF IsInstance(exc, "SiteDownloaderError") THEN Skip(st, "site error")
    ELSE [st EXCEPT !.exc = "NameError", !.cause = exc]

(* A call the operation makes on the way, entered in the trace. *)
Invoked(st, op) == [st EXCEPT !.ev = Append(@, Called(op, ""))]

DownloadSubmission(post, st, env) ==
    LET looked == Invoked(st, "pull_lever")
        asked == Invoked(looked, "find_resources")
    IN
    IF post.id \in excluded_submission_ids THEN Skip(st, "excluded")
    ELSE IF env.fault # NoExc /\ env.at = "attrs" THEN Raise(st, env.fault)
    ELSE IF FilterReason(post) # "" THEN Skip(st, FilterReason(post))
    ELSE IF post.module = "" THEN Skip(looked, "not downloadable")
    ELSE IF post.module \in args.disable_module THEN Skip(looked, "disabled module")
    ELSE IF env.fault # NoExc /\ env.at = "find_resources"
         THEN FindResourcesRaised(asked, env.fault)
    ELSE ResourceLoop(post.content, 1, asked, env.io)

(* A call with its completion recorded in the trace. *)
Returned(op, st) ==
    [st EXCEPT !.ev = Append(@, Called(op, IF st.exc = NoExc THEN "returned" ELSE st.exc))]

----------------------------------------------------------------------------
(* Archiver.write_entry *)

(* A remote exception while the item is read for the entry factory         *)
(* propagates; inside the try (compile and write) ClientException is       *)
(* logged as "unable to retrieve" and nothing is written.                  *)
WriteEntry(post, st, env) ==
    IF env.fault # NoExc /\ env.at = "attrs" THEN Raise(st, env.fault)
    ELSE IF args.format \notin {"json", "xml", "yaml"}
         THEN [st EXCEPT !.exc = "ArchiverError"]
    ELSE IF env.fault # NoExc /\ env.at = "compile"
         THEN IF IsInstance(env.fault, "ClientException") THEN st
              ELSE Raise(st, env.fault)
    ELSE [st EXCEPT !.archive = @ \cup {post.id},
                    !.ev = Append(@, Recorded(post.id))]

----------------------------------------------------------------------------
(* The drivers *)

(* The call state a loop iteration starts from. *)
Now == CallState(fs, master_hash_list, dirs, archive)

Cube(n) == n * n * n
Backoff(attempt) == BaseDelay * Cube(attempt)

Break(st) == [st |-> st, next |-> "break", retry |-> retry, slept |-> <<>>]
Propagate(st) == [st |-> st, next |-> "raise", retry |-> retry, slept |-> <<>>]

(* CoolDownSleep with the sleep left out. *)
NoCoolDownSleep == <<>>

(* logger.debug("Waiting 60 seconds to continue"); sleep(60) *)
CoolDownSleep == <<Slept(CoolDown)>>

(* The outer clause, `except prawcore.PrawcoreException` around the for    *)
(* loop: a log line and the sleep; the outer for takes the next generator. *)
CoolOff(st) ==
    [st |-> st, next |-> "outer", retry |-> retry, slept |-> CoolDownSleep]

(* OnTooManyRequests with `retry += 1` left out. *)
OnTooManyRequestsUncounted(st, max_retries) ==
    [st |-> st, next |-> "continue", retry |-> retry,
     slept |-> <<Slept(Backoff(retry + 1))>>]

(* The body of `except prawcore.exceptions.TooManyRequests:` in            *)
(* archiver.py:60-71 and cloner.py:34-49.                                  *)
OnTooManyRequests(st, max_retries) ==
    IF retry < max_retries
    THEN [st |-> st, next |-> "continue", retry |-> retry + 1,
          slept |-> <<Slept(Backoff(retry + 1))>>]
    ELSE Break(st)

(* What follows the try body: the first matching clause of `clauses` runs, *)
(* then the `break` that ends the while body; an exception no clause       *)
(* matches leaves download(), whose outer clause catches only              *)
(* PrawcoreException.                                                      *)
Except(clauses, st, max_retries) ==
    LET h == Handler(clauses, st.exc) IN
    IF st.exc = NoExc THEN Break(st)
    ELSE IF h = "TooManyRequests" THEN OnTooManyRequests(st, max_retries)
    ELSE IF h \in {"PrawcoreException", "ClientException"} THEN Break(st)
    ELSE IF IsInstance(st.exc, "PrawcoreException") THEN CoolOff(st)
    ELSE Propagate(st)

DownloaderClauses == <<"PrawcoreException">>
ArchiverClauses == <<"PrawcoreException", "TooManyRequests", "ClientException">>
ClonerClauses == <<"TooManyRequests", "PrawcoreException", "ClientException">>

(* downloader.py:50-53 *)
DownloaderTry(post, env) ==
    Returned("_download_submission", DownloadSubmission(post, Now, env))

(* archiver.py:43-55 *)
ArchiverTry(post, env) ==
    IF env.fault # NoExc /\ env.at = "attrs" THEN Raise(Now, env.fault)
    ELSE IF AuthorIgnored(post) THEN Skip(Now, "author")
    ELSE IF post.id \in excluded_submission_ids THEN Skip(Now, "excluded")
    ELSE Returned("write_entry", WriteEntry(post, Now, env))

(* ClonerTry with the two calls in the other order. *)
ClonerTryArchiveFirst(post, denv, wenv) ==
    LET got == Returned("write_entry", WriteEntry(post, Now, wenv)) IN
    IF got.exc # NoExc THEN got
    ELSE Returned("_download_submission", DownloadSubmission(post, got, denv))

(* cloner.py:31-33 *)
ClonerTry(post, denv, wenv) ==
    LET got == Returned("_download_submission", DownloadSubmission(post, Now, denv)) IN
    IF got.exc # NoExc THEN got
    ELSE Returned("write_entry", WriteEntry(post, got, wenv))

(* NextGenerator going back to the for loop of the same generator. *)
SameGenerator ==
    /\ g' = g
    /\ taken' = taken
    /\ submission' = submission
    /\ retry' = retry
    /\ pc' = "loop"

(* The outer for takes its next generator: the header of its body sets    *)
(* submission = None (and retry = 0 where the driver has one).             *)
NextGenerator ==
    /\ g' = g + 1
    /\ taken' = 0
    /\ submission' = NoPost
    /\ retry' = 0
    /\ pc' = IF g + 1 > nlists THEN "done" ELSE "loop"

(* The state after one pass of the loop body. *)
Commit(out) ==
    /\ fs' = out.st.fs
    /\ master_hash_list' = out.st.mhl
    /\ dirs' = out.st.dirs
    /\ archive' = out.st.archive
    /\ trace' = trace \o out.st.ev
                   \o <<Attempt(IF out.st.exc = NoExc THEN "ok" ELSE out.st.exc,
                                out.st.cause, retry)>>
                   \o out.slept
    /\ IF out.next = "outer" THEN NextGenerator
       ELSE /\ retry' = out.retry
            /\ pc' = IF out.next = "break" THEN "loop"
                     ELSE IF out.next = "continue" THEN "item" ELSE "raised"
            /\ UNCHANGED <<g, taken, submission>>
    /\ error' = IF out.next = "raise" THEN out.st.exc ELSE error
    /\ UNCHANGED <<driver, args, excluded_submission_ids, nlists, run, feed, pool>>

(* The while condition is false: the for loop takes the next item. *)
LeaveWhile ==
    /\ pc' = "loop"
    /\ UNCHANGED <<driver, args, excluded_submission_ids, nlists, g, taken,
                   submission, retry, error, master_hash_list, fs, dirs,
                   archive, trace, run, feed, pool>>

DownloaderStep(envs) ==
    /\ driver = "downloader" /\ pc = "item"
    /\ \E env \in envs :
          Commit(Except(DownloaderClauses, DownloaderTry(submission, env), 0))

DownloaderItem == DownloaderStep(DownloadFaults)

ArchiverIteration ==
    /\ driver = "archiver" /\ pc = "item"
    /\ IF retry < ArchiverMaxRetries
       THEN \E env \in WriteFaults :
               Commit(Except(ArchiverClauses, ArchiverTry(submission, env),
                             ArchiverMaxRetries))
       ELSE LeaveWhile

ClonerIteration ==
    /\ driver = "cloner" /\ pc = "item"
    /\ IF retry < ClonerMaxRetries
       THEN \E denv \in DownloadFaults, wenv \in WriteFaults :
               Commit(Except(ClonerClauses, ClonerTry(submission, denv, wenv),
                             ClonerMaxRetries))
       ELSE LeaveWhile

----------------------------------------------------------------------------
(* The generators of reddit_lists *)

(* `for submission in generator` yields `post`.  Archiver.download sets    *)
(* retry = 0 in the for body (archiver.py:41); the other two do not.       *)
Take(post) ==
    /\ pc = "loop"
    /\ pc' = "item"
    /\ submission' = post
    /\ taken' = taken + 1
    /\ retry' = IF driver = "archiver" THEN 0 ELSE retry
    /\ trace' = <<>>
    /\ UNCHANGED <<driver, args, excluded_submission_ids, nlists, g, error,
                   master_hash_list, fs, dirs, archive, run, pool>>

(* The generator is exhausted. *)
StopIteration ==
    /\ pc = "loop"
    /\ run = 1 \/ taken = Len(feed[g])
    /\ NextGenerator
    /\ trace' = <<>>
    /\ UNCHANGED <<driver, args, excluded_submission_ids, nlists, error,
                   master_hash_list, fs, dirs, archive, run, feed, pool>>

(* Advancing the generator raises `exc`: the outer clause catches a        *)
(* PrawcoreException, logs, sleeps and lets the outer for go on; anything  *)
(* else leaves download().                                                 *)
AdvanceRaises(exc) ==
    /\ pc = "loop"
    /\ run = 1
    /\ IF Handler(<<"PrawcoreException">>, exc) = "PrawcoreException"
       THEN /\ NextGenerator
            /\ trace' = <<AdvanceFailed(exc, g)>> \o CoolDownSleep
            /\ error' = error
       ELSE /\ pc' = "raised"
            /\ error' = exc
            /\ trace' = <<AdvanceFailed(exc, g)>>
            /\ UNCHANGED <<g, taken, submission, retry>>
    /\ UNCHANGED <<driver, args, excluded_submission_ids, nlists,
                   master_hash_list, fs, dirs, archive, run, feed, pool>>

AdvanceFails == \E exc \in RemoteFaults : AdvanceRaises(exc)

----------------------------------------------------------------------------
(* Configurations and posts the runs are given *)

BaseArgs ==
    [no_dupes |-> FALSE, make_hard_links |-> FALSE, search_existing |-> FALSE,
     ignore_user |-> {}, skip_subreddit |-> {}, min_score |-> Unset,
     max_score |-> Unset, min_score_ratio |-> Unset, max_score_ratio |-> Unset,
     disable_module |-> {},
     format |-> "json"]

DriverArgs ==
    {[BaseArgs EXCEPT !.no_dupes = TRUE, !.ignore_user = u] :
        u \in {{"bob"}, {"bob", "DELETED"}}}

DriverPosts ==
    {Post(id, "Pics", author, 10, 90, "Submission", TRUE, "direct", <<R1>>) :
        id \in {"p1", "p2"}, author \in {"alice", "bob", None}}

(* RedditConnector.__init__ leaves an empty index; RedditDownloader's      *)
(* replaces it by the scan when search_existing is set.                    *)
InitWith(drivers, argses, exclusions, trees) ==
    /\ driver \in drivers
    /\ args \in argses
    /\ excluded_submission_ids \in exclusions
    /\ nlists \in 1..MaxGenerators
    /\ g = 1
    /\ taken = 0
    /\ submission = NoPost
    /\ retry = 0
    /\ pc = "loop"
    /\ error = NoExc
    /\ fs \in trees
    /\ master_hash_list \in
          IF args.search_existing /\ driver # "archiver"
          THEN ScanResults(fs) ELSE {EmptyIndex}
    /\ dirs = {Parent(p) : p \in {q \in Paths : fs[q] # NoFile}}
    /\ archive = {}
    /\ trace = <<>>
    /\ run = 1
    /\ feed = [i \in 1..nlists |-> <<>>]
    /\ pool = NoPool

Init == InitWith({"downloader", "archiver", "cloner"}, DriverArgs, {{"p2"}}, {EmptyTree})

Yield ==
    /\ taken < MaxItems
    /\ \E post \in DriverPosts : Take(post)
    /\ UNCHANGED feed

Next ==
    \/ Yield
    \/ StopIteration
    \/ AdvanceFails
    \/ DownloaderItem
    \/ ArchiverIteration
    \/ ClonerIteration

Spec == Init /\ [][Next]_vars

(* The three drivers under one configuration, with the fairness that      *)
(* download() keeps running: a generator asked for its next item yields    *)
(* one, ends or raises, and a loop body that has begun is carried out.     *)
(* Every step changes the place download() is at or adds to the trace.     *)
LivePosts ==
    {Post("p1", "Pics", "alice", 10, 90, "Submission", TRUE, "direct", <<R1>>)}

InitLive ==
    /\ InitWith({"downloader", "archiver", "cloner"},
                {[BaseArgs EXCEPT !.no_dupes = TRUE, !.ignore_user = {"bob"}]},
                {{"p2"}}, {EmptyTree})
    /\ nlists = MaxGenerators

YieldLive ==
    /\ taken < MaxItems
    /\ \E post \in LivePosts : Take(post)
    /\ UNCHANGED feed

NextLive ==
    \/ YieldLive
    \/ StopIteration
    \/ AdvanceFails
    \/ DownloaderItem
    \/ ArchiverIteration
    \/ ClonerIteration

SpecLive ==
    InitLive /\ [][NextLive]_vars /\ WF_<<g, taken, pc, retry, trace>>(NextLive)

----------------------------------------------------------------------------
(* The Downloader over posts with several resources, under every           *)
(* duplicate-handling configuration, on an empty tree or one that holds    *)
(* the bytes "c1" already.                                                 *)

AcquireArgs ==
    {[BaseArgs EXCEPT !.no_dupes = nd, !.make_hard_links = hl,
                      !.search_existing = se] :
        nd \in BOOLEAN, hl \in BOOLEAN, se \in BOOLEAN}

AcquireTrees == {EmptyTree, [EmptyTree EXCEPT !["out/a/2.jpg"] = "c1"]}

AcquirePosts ==
    {Post("p1", "Pics", "alice", 10, 90, "Submission", TRUE, "direct", c) :
        c \in ContentLists}

InitAcquire == InitWith({"downloader"}, AcquireArgs, {{}}, AcquireTrees)

YieldAcquire ==
    /\ taken < MaxItems
    /\ \E post \in AcquirePosts : Take(post)
    /\ UNCHANGED feed

NextAcquire ==
    \/ YieldAcquire
    \/ StopIteration
    \/ AdvanceFails
    \/ DownloaderItem

SpecAcquire == InitAcquire /\ [][NextAcquire]_vars

----------------------------------------------------------------------------
(* Two runs of the Downloader over the same posts: the first run's posts   *)
(* are kept in `feed`; a second RedditDownloader is then constructed on    *)
(* the tree the first left, with search_existing set, and its generators   *)
(* yield the posts of `feed` again.  No fault is injected in either run.   *)

YieldFirst ==
    /\ run = 1
    /\ taken < MaxItems
    /\ \E post \in AcquirePosts :
          /\ Take(post)
          /\ feed' = [feed EXCEPT ![g] = Append(@, post)]

YieldAgain ==
    /\ run = 2
    /\ pc = "loop"
    /\ taken < Len(feed[g])
    /\ Take(feed[g][taken + 1])
    /\ UNCHANGED feed

DownloaderItemNoFault == DownloaderStep({NoFault})

Rerun ==
    /\ run = 1
    /\ pc = "done"
    /\ driver = "downloader"
    /\ run' = 2
    /\ args' = [args EXCEPT !.search_existing = TRUE]
    /\ master_hash_list' \in ScanResults(fs)
    /\ g' = 1
    /\ taken' = 0
    /\ submission' = NoPost
    /\ retry' = 0
    /\ pc' = "loop"
    /\ trace' = <<>>
    /\ UNCHANGED <<driver, excluded_submission_ids, nlists, error, fs, dirs,
                   archive, feed, pool>>

(* One generator is enough for the two runs. *)
InitRerun == InitAcquire /\ nlists = 1

NextRerun ==
    \/ YieldFirst
    \/ YieldAgain
    \/ StopIteration
    \/ DownloaderItemNoFault
    \/ Rerun

SpecRerun == InitRerun /\ [][NextRerun]_vars

----------------------------------------------------------------------------
(* The Downloader and the Archiver over posts of every kind the filters    *)
(* tell apart, under every setting of the filters.  The upvote ratio is in *)
(* percent.                                                                *)

FilterArgs ==
    {[BaseArgs EXCEPT !.no_dupes = TRUE, !.ignore_user = u, !.skip_subreddit = s,
                      !.min_score = lo, !.max_score = hi, !.min_score_ratio = r] :
        u \in {{}, {"DELETED"}, {"bob"}}, s \in {{}, {"pics"}},
        lo \in {Unset, Limit(0), Limit(10), Limit(-3)},
        hi \in {Unset, Limit(10)}, r \in {Unset, Limit(50)}}

FilterPosts ==
    {Post(id, subreddit, author, score, 40, k[1], k[2], "direct", <<R1>>) :
        id \in {"p1", "p2"}, subreddit \in {"Pics", "aww"}, author \in {None, "bob"},
        score \in {-5, 5, 20},
        k \in {<<"Submission", TRUE>>, <<"Submission", FALSE>>, <<"Comment", TRUE>>}}

(* One generator is enough to tell the filters apart. *)
InitFilter ==
    /\ InitWith({"downloader", "archiver"}, FilterArgs, {{"p2"}}, {EmptyTree})
    /\ nlists = 1

YieldFilter ==
    /\ taken < MaxItems
    /\ \E post \in FilterPosts : Take(post)
    /\ UNCHANGED feed

NextFilter ==
    \/ YieldFilter
    \/ StopIteration
    \/ AdvanceFails
    \/ DownloaderItem
    \/ ArchiverIteration

SpecFilter == InitFilter /\ [][NextFilter]_vars

----------------------------------------------------------------------------
(* The construction of a RedditDownloader with search_existing set, its    *)
(* scan carried out by the workers of the pool, and then its download().   *)

(* A worker takes the next file off the task queue. *)
WorkerTakes(w) ==
    /\ pc = "scan"
    /\ pool.busy[w] = 0
    /\ pool.handed < Len(pool.files)
    /\ pool' = [pool EXCEPT !.handed = @ + 1, !.busy[w] = pool.handed + 1]
    /\ UNCHANGED <<driver, args, excluded_submission_ids, nlists, g, taken,
                   submission, retry, pc, error, master_hash_list, fs, dirs,
                   archive, trace, run, feed>>

(* The worker's _calc_hash returns and the result goes back to the map. *)
WorkerReturns(w) ==
    /\ pc = "scan"
    /\ pool.busy[w] # 0
    /\ pool' = [pool EXCEPT !.busy[w] = 0,
                            !.results[pool.busy[w]] = md5(fs[pool.files[pool.busy[w]]])]
    /\ UNCHANGED <<driver, args, excluded_submission_ids, nlists, g, taken,
                   submission, retry, pc, error, master_hash_list, fs, dirs,
                   archive, trace, run, feed>>

WorkerStep == \E w \in Workers : WorkerTakes(w) \/ WorkerReturns(w)

(* pool.map returns, the pool is closed, the dict is built and __init__    *)
(* assigns it; download() can be called.                                   *)
MapReturns ==
    /\ pc = "scan"
    /\ MapDone(pool)
    /\ master_hash_list' = HashList(pool.files, pool.results, 1, EmptyIndex)
    /\ pc' = "loop"
    /\ UNCHANGED <<driver, args, excluded_submission_ids, nlists, g, taken,
                   submission, retry, error, fs, dirs, archive, trace, run,
                   feed, pool>>

ScanTrees ==
    {EmptyTree,
     [EmptyTree EXCEPT !["out/a/2.jpg"] = "c1"],
     [EmptyTree EXCEPT !["out/a/1.jpg"] = "c1", !["out/a/2.jpg"] = "c1"],
     [EmptyTree EXCEPT !["out/a/2.jpg"] = "c1", !["out/b/3.jpg"] = "c2"],
     [EmptyTree EXCEPT !["out/a/1.jpg"] = "c1", !["out/a/2.jpg"] = "c1",
                       !["out/b/4.gif"] = "c2"]}

FilesOf(tree) == {p \in Paths : tree[p] # NoFile}

(* The orders os.walk may list the files of `tree` in. *)
WalkOrders(tree) ==
    {f \in [1..Cardinality(FilesOf(tree)) -> FilesOf(tree)] :
        \A i, j \in 1..Len(f) : i # j => f[i] # f[j]}

(* RedditConnector.__init__ has left an empty index and __init__ has       *)
(* called scan_existing_files, which has listed the files and made the     *)
(* pool.  One generator is enough for the download() that follows.         *)
InitScan ==
    /\ driver = "downloader"
    /\ args \in {a \in AcquireArgs : a.search_existing}
    /\ excluded_submission_ids = {}
    /\ nlists = 1
    /\ g = 1
    /\ taken = 0
    /\ submission = NoPost
    /\ retry = 0
    /\ pc = "scan"
    /\ error = NoExc
    /\ fs \in ScanTrees
    /\ master_hash_list = EmptyIndex
    /\ dirs = {Parent(p) : p \in FilesOf(fs)}
    /\ archive = {}
    /\ trace = <<>>
    /\ run = 1
    /\ feed = [i \in 1..nlists |-> <<>>]
    /\ pool \in {PoolOver(files) : files \in WalkOrders(fs)}

NextScan ==
    \/ WorkerStep
    \/ MapReturns
    \/ YieldAcquire
    \/ StopIteration
    \/ AdvanceFails
    \/ DownloaderItem

SpecScan == InitScan /\ [][NextScan]_vars

----------------------------------------------------------------------------
(* Reading the trace *)

IsAttempt(e) == e.op = "attempt"
IsSleep(e) == e.op = "sleep"
IsRecord(e) == e.op = "record"

(* The passes of the try body made for the current item, in order. *)
Attempts == SelectSeq(trace, IsAttempt)

(* The delays slept since the generator was last advanced, in order. *)
Sleeps == LET s == SelectSeq(trace, IsSleep) IN [i \in 1..Len(s) |-> s[i].secs]

(* The loop body is over for the item in `submission`. *)
ItemEnded == pc = "loop" /\ taken > 0

Retrying == {"archiver", "cloner"}
Ceiling == IF driver = "archiver" THEN ArchiverMaxRetries ELSE ClonerMaxRetries

AllRateLimited(a) == \A i \in 1..Len(a) : a[i].what = "TooManyRequests"

----------------------------------------------------------------------------
(* C1: in every driver, an item its generator yielded is not left behind   *)
(* before its per-item operation has been invoked at least once, whatever  *)
(* happened to the items before it.                                        *)
C1_EveryItemAttempted == ItemEnded => Len(Attempts) >= 1

(* C2: in the Archiver and the Cloner, an item whose operation has only    *)
(* failed rate-limited is left behind only after ceiling + 1 such          *)
(* failures: after n <= ceiling of them another attempt is still made.     *)
C2_RetriedUpToCeiling ==
    (driver \in Retrying /\ ItemEnded /\ Len(Attempts) >= 1 /\ AllRateLimited(Attempts))
        => Len(Attempts) = Ceiling + 1

(* C3: when an item succeeds after k rate-limited failures, the driver has *)
(* slept exactly k times for it, the j-th time for 30 * j^3 seconds.       *)
C3_BackoffSchedule ==
    LET a == Attempts
        k == Len(a) - 1
    IN (/\ driver \in Retrying
        /\ Len(a) >= 1
        /\ a[Len(a)].what = "ok"
        /\ AllRateLimited(SubSeq(a, 1, k)))
           => Sleeps = [j \in 1..k |-> 30 * j * j * j]

(* C6: download() does not raise because a per-item operation failed with  *)
(* a remote-protocol error other than rate limiting or with a client-side  *)
(* error, at whichever step of the operation the error was raised.         *)
C6_ItemErrorsAbsorbed ==
    (pc = "raised" /\ Len(Attempts) >= 1)
        => Attempts[Len(Attempts)].held \notin {"RequestException", "ClientException"}

(* C10: in the Archiver and the Cloner no archive record is written for an *)
(* item whose id is excluded or whose author is ignored.                   *)
C10_NoRecordForExcluded ==
    (driver \in Retrying /\ taken > 0)
        => \A i \in 1..Len(trace) :
              IsRecord(trace[i]) =>
                  /\ submission.id \notin excluded_submission_ids
                  /\ ~AuthorIgnored(submission)

----------------------------------------------------------------------------
(* Sequence-level failure *)

(* The generator trace[1].secs has just failed to advance with a           *)
(* PrawcoreException: nothing has been done since.                         *)
SequenceFailed ==
    /\ trace # <<>>
    /\ trace[1].op = "advance failed"
    /\ IsInstance(trace[1].what, "PrawcoreException")

FailedGenerator == trace[1].secs

(* C7: when advancing a sequence fails with a PrawcoreException the driver *)
(* sleeps once, for 60 seconds, download() has not raised, the failed      *)
(* sequence is left for the one after it (or the run is over when it was   *)
(* the last), and the driver never goes back: neither to an earlier        *)
(* sequence nor to an earlier item of the current one.                     *)
C7_CoolDownThenNextSequence ==
    /\ [](SequenceFailed =>
            /\ Sleeps = <<60>>
            /\ error = NoExc
            /\ g = FailedGenerator + 1
            /\ taken = 0
            /\ pc = IF g > nlists THEN "done" ELSE "loop")
    /\ [][g' >= g /\ (g' = g => taken' >= taken)]_vars

C7_Witness ==
    /\ SequenceFailed
    /\ trace[1].what = "TooManyRequests"
    /\ FailedGenerator = 1
    /\ pc = "loop"
    /\ archive # {}

(* C8 as the specification states it: after the cool-down the driver is    *)
(* still on the sequence that failed, to resume it.                        *)
C8_ResumesSameSequence == SequenceFailed => g = FailedGenerator

(* C8 amended: after the cool-down the failed sequence is not resumed; the *)
(* next item the driver takes is the first item of the following sequence. *)
C8_NextItemFromNextSequence ==
    [][(SequenceFailed /\ pc' = "item") =>
          (g' = FailedGenerator + 1 /\ taken' = 1 /\ trace' = <<>>)]_vars

C8_Witness ==
    /\ SequenceFailed
    /\ trace[1].what = "RequestException"
    /\ FailedGenerator = 1
    /\ nlists = 2
    /\ pc = "loop"
    /\ driver = "downloader"
    /\ fs["out/a/1.jpg"] # NoFile

----------------------------------------------------------------------------
(* C9: in the Cloner an archive record is written only for the item in     *)
(* hand and only after _download_submission has returned for it in the     *)
(* same pass of the try body; the passes made for an item, whichever of    *)
(* the two calls failed, are numbered by the one counter `retry`.          *)
C9_ArchiveAfterAcquisition ==
    (driver = "cloner" /\ taken > 0) =>
        /\ \A j \in 1..Len(trace) :
              IsRecord(trace[j]) =>
                  /\ trace[j].what = submission.id
                  /\ \E i \in 1..(j - 1) :
                        /\ trace[i] = Called("_download_submission", "returned")
                        /\ \A m \in i..j : ~IsAttempt(trace[m])
        /\ \A i \in 1..(Len(Attempts) - 1) :
              /\ Attempts[i].what = "TooManyRequests"
              /\ Attempts[i + 1].secs = Attempts[i].secs + 1

C9_Witness ==
    /\ driver = "cloner"
    /\ Len(Attempts) = 3
    /\ Attempts[1].what = "TooManyRequests"
    /\ Attempts[3].what = "ok"
    /\ \E j \in 1..Len(trace) : IsRecord(trace[j])
    /\ \E j \in 1..Len(trace) : trace[j] = Called("write_entry", "TooManyRequests")

----------------------------------------------------------------------------
(* Deduplication *)

(* The events of resources that reached the index lookup of line 136. *)
IsLookup(e) == e.op \in {"write", "write failed", "link", "link failed", "skip"}

(* C4 as the specification states it: under every configuration a resource *)
(* whose hash is in the index when it is looked up is not written.         *)
C4_DuplicateNeverWritten ==
    \A i \in 1..Len(trace) :
        (IsLookup(trace[i]) /\ trace[i].held # NoPath)
            => trace[i].op \notin {"write", "write failed"}

(* C4 amended: what happens to such a resource depends on the options.     *)
(* With no_dupes it is skipped and no file appears at its destination;     *)
(* otherwise with make_hard_links the destination becomes a hard link to   *)
(* the indexed path (or nothing, when linking fails); with neither option  *)
(* its bytes are written like any other.  A resource whose hash is not in  *)
(* the index is written.  In every case the destination's directory has    *)
(* been made, and a lookup finds the destination of the latest write of    *)
(* the same hash.                                                          *)
C4_DuplicateByMode ==
    \A j \in 1..Len(trace) :
        LET e == trace[j] IN
        IsLookup(e) =>
            /\ Parent(e.what) \in dirs
            /\ IF e.held = NoPath THEN e.op \in {"write", "write failed"}
               ELSE IF args.no_dupes THEN e.op = "skip" /\ fs[e.what] = NoFile
               ELSE IF args.make_hard_links
                    THEN \/ e.op = "link" /\ fs[e.what] = fs[e.held]
                         \/ e.op = "link failed" /\ fs[e.what] = NoFile
               ELSE e.op \in {"write", "write failed"}
            /\ \A i \in 1..(j - 1) :
                  (/\ trace[i].op = "write"
                   /\ trace[i].hash = e.hash
                   /\ \A m \in (i + 1)..(j - 1) :
                         ~(trace[m].op = "write" /\ trace[m].hash = e.hash))
                      => e.held = trace[i].what

(* One post, two resources with the same hash: the first written, the      *)
(* second skipped or linked to the first's destination.                    *)
C4_Witness ==
    \E i, j \in 1..Len(trace) :
        /\ i < j
        /\ trace[i].op = "write"
        /\ trace[j].op \in {"skip", "link"}
        /\ trace[j].hash = trace[i].hash
        /\ trace[j].held = trace[i].what

(* C5: the second run over the same posts, its index rebuilt by the scan,  *)
(* writes no content bytes.                                                *)
C5_SecondRunWritesNothing ==
    run = 2 => \A i \in 1..Len(trace) : trace[i].op # "write"

----------------------------------------------------------------------------
(* Filters *)

(* The operation skipped the post: one of its early returns (or, in the    *)
(* Archiver, one of the two breaks) was taken.                             *)
PostSkipped == \E i \in 1..Len(trace) : trace[i].op = "skip post"

SkippedFor(reasons) ==
    \E i \in 1..Len(trace) : trace[i].op = "skip post" /\ trace[i].what \in reasons

(* Something was fetched, linked, written or archived for the post. *)
PostTouched ==
    \E i \in 1..Len(trace) :
        trace[i].op \in {"pull_lever", "find_resources", "record"} \/ IsLookup(trace[i])

(* The Downloader or the Archiver has made its one pass over a post whose  *)
(* author is None, and no exception ended the pass.                        *)
DeletedAuthorDone ==
    /\ driver \in {"downloader", "archiver"}
    /\ ItemEnded
    /\ submission.author = None
    /\ Len(Attempts) = 1
    /\ Attempts[1].what = "ok"

(* C11 as the specification states it: a post whose author is None is      *)
(* skipped if and only if "DELETED" is in ignore_user, whatever the other   *)
(* filters and the other fields of the post are.                           *)
C11_DeletedSkippedIff ==
    DeletedAuthorDone => (PostSkipped <=> "DELETED" \in args.ignore_user)

(* C11 amended: with "DELETED" in ignore_user the post is skipped, by the   *)
(* author test or by a test that comes before it, and nothing is fetched,  *)
(* written or archived for it; without "DELETED" the author test does not  *)
(* skip it, but another filter may, and in the Archiver a post that is not *)
(* excluded then reaches write_entry.                                      *)
C11_DeletedSkippedByAuthorTest ==
    DeletedAuthorDone =>
        IF "DELETED" \in args.ignore_user
        THEN /\ SkippedFor({"excluded", "subreddit", "author"})
             /\ ~PostTouched
             /\ (driver = "archiver" => SkippedFor({"author"}))
        ELSE /\ ~SkippedFor({"author"})
             /\ (driver = "archiver" /\ submission.id \notin excluded_submission_ids)
                    => /\ ~PostSkipped
                       /\ \E i \in 1..Len(trace) : trace[i].op = "write_entry"

C11_Witness ==
    /\ DeletedAuthorDone
    /\ driver = "downloader"
    /\ "DELETED" \in args.ignore_user
    /\ Truthy(args.min_score)
    /\ SkippedFor({"author"})

(* C12: in _download_submission a post whose score is below the minimum   *)
(* score the configuration supplies, whatever integer that is, ends as a   *)
(* skip: the extractor is not looked up, find_resources is not called, no  *)
(* resource is fetched, nothing is written and the index is not touched.   *)
C12_BelowMinScoreSkipped ==
    (/\ driver = "downloader"
     /\ ItemEnded
     /\ Len(Attempts) = 1
     /\ Attempts[1].what = "ok"
     /\ args.min_score # Unset
     /\ submission.score < Value(args.min_score))
        => PostSkipped /\ ~PostTouched

----------------------------------------------------------------------------
(* The retry controller *)

(* C13: the three drivers answer the same outcomes of the per-item         *)
(* operation with the same attempts, the same sleeps and the same final    *)
(* state.  The Cloner answers a first rate-limited failure of an item,     *)
(* with its counter at 0, by sleeping 30 seconds and attempting the item   *)
(* again; so then does every driver.                                       *)
C13_SameResponseInEveryDriver ==
    (/\ taken > 0
     /\ Len(Attempts) = 1
     /\ Attempts[1].what = "TooManyRequests"
     /\ Attempts[1].secs = 0)
        => (pc = "item" /\ retry = 1 /\ Sleeps = <<30>>)

(* C14: in the Archiver and the Cloner the counter `retry` is 0 when the   *)
(* first attempt on an item begins.                                        *)
C14_RetryZeroAtFirstAttempt ==
    (driver \in Retrying /\ pc = "item" /\ trace = <<>>) => retry = 0

(* C15: in the Archiver and the Cloner an item is not left behind right    *)
(* after a backoff sleep: the last thing done for an item is an attempt,   *)
(* not a sleep.                                                            *)
C15_BackoffThenAttempt ==
    (driver \in Retrying /\ ItemEnded /\ trace # <<>>)
        => ~IsSleep(trace[Len(trace)])

----------------------------------------------------------------------------
(* The resources of one post *)

(* The place in the post in hand of the resource whose destination is      *)
(* `path`.                                                                 *)
PlaceOf(path) ==
    CHOOSE k \in 1..Len(submission.content) : submission.content[k].dest = path

(* After the event trace[i] about one resource, every resource that        *)
(* follows it in the post was still dealt with: the filter rejected it, or *)
(* its destination exists (it was there before or has been written), or    *)
(* it was fetched and looked up in the index.                              *)
LaterResourcesExamined(i) ==
    \A m \in (PlaceOf(trace[i].what) + 1)..Len(submission.content) :
        LET res == submission.content[m] IN
        \/ ~res.admit
        \/ fs[res.dest] # NoFile
        \/ \E j \in (i + 1)..Len(trace) :
              /\ trace[j].what = res.dest
              /\ (IsLookup(trace[j]) \/ trace[j].op = "fetch failed")

(* C16: a fetch failure or a write failure on one resource of a post ends  *)
(* that resource only; the resources after it are still examined, and      *)
(* written when new.                                                       *)
C16_FailureEndsOnlyItsResource ==
    \A i \in 1..Len(trace) :
        trace[i].op \in {"fetch failed", "write failed"} => LaterResourcesExamined(i)

(* C17: a resource found to be a duplicate, skipped with no_dupes or       *)
(* linked with make_hard_links, ends that resource only; the resources     *)
(* after it are still examined, and written when new.                      *)
C17_DuplicateEndsOnlyItsResource ==
    \A i \in 1..Len(trace) :
        trace[i].op \in {"skip", "link"} => LaterResourcesExamined(i)

----------------------------------------------------------------------------
(* The content hash index *)

(* C18 as the specification states it: once a hash has an entry in the    *)
(* index, from the scan or from a write, the path the entry holds never    *)
(* changes, under every setting of no_dupes and make_hard_links.           *)
C18_EntryKeepsFirstPath ==
    [][\A h \in Hashes :
          master_hash_list[h] # NoPath => master_hash_list'[h] = master_hash_list[h]]_vars

(* C18 amended: with no_dupes or make_hard_links set the path of an entry  *)
(* never changes; with neither set an entry changes only to the            *)
(* destination of a file just written with the bytes of that hash.  An     *)
(* entry is never removed.                                                 *)
C18_EntryChangesOnlyOnRewrite ==
    [][\A h \in Hashes :
          master_hash_list[h] # NoPath =>
              \/ master_hash_list'[h] = master_hash_list[h]
              \/ /\ ~args.no_dupes
                 /\ ~args.make_hard_links
                 /\ master_hash_list'[h] # NoPath
                 /\ fs[master_hash_list'[h]] = NoFile
                 /\ fs'[master_hash_list'[h]] # NoFile
                 /\ md5(fs'[master_hash_list'[h]]) = h]_vars

(* A duplicate was linked to the file the scan had indexed, and the entry  *)
(* still names that file.                                                  *)
C18_Witness ==
    \E i \in 1..Len(trace) :
        /\ trace[i].op = "link"
        /\ trace[i].held = "out/a/2.jpg"
        /\ master_hash_list[trace[i].hash] = "out/a/2.jpg"

(* C19: when making the hard link of a duplicate fails with an OSError,    *)
(* the failure is absorbed: download() does not raise and goes on with the *)
(* next item.                                                              *)
C19_LinkFailureAbsorbed ==
    (\E i \in 1..Len(trace) : trace[i].op = "link failed")
        => (pc = "loop" /\ error = NoExc)

----------------------------------------------------------------------------
(* The initial scan *)

PoolIdle ==
    /\ \A w \in Workers : pool.busy[w] = 0
    /\ pool.handed = Len(pool.files)
    /\ MapDone(pool)

(* The index as the scan leaves it: one entry for each hash some file of   *)
(* the tree has, naming a file with that hash, and no other entry.         *)
IndexMatchesTree ==
    \A h \in Hashes :
        IF \E p \in Paths : fs[p] # NoFile /\ md5(fs[p]) = h
        THEN /\ master_hash_list[h] \in Paths
             /\ fs[master_hash_list[h]] # NoFile
             /\ md5(fs[master_hash_list[h]]) = h
        ELSE master_hash_list[h] = NoPath

(* C20: with search_existing set, in whatever order the workers of the     *)
(* pool take and finish the files, every worker is done when the scan      *)
(* hands over to download(), so before the first item is taken; the index  *)
(* download() starts from has exactly one entry for each hash some file    *)
(* has, naming one of the files with that hash, and none for another hash; *)
(* and from then on no worker does anything: the pool never changes again  *)
(* and the index is touched by nothing during the scan but its last step.  *)
C20_ScanDoneBeforeFirstItem ==
    /\ [](pc # "scan" => PoolIdle)
    /\ []((pc = "loop" /\ g = 1 /\ taken = 0) => IndexMatchesTree)
    /\ [][(pc # "scan" => pool' = pool)
           /\ (pc = "scan" /\ pc' = "scan" => master_hash_list' = master_hash_list)]_vars

(* Three files, two of them with the same bytes, hashed by the two workers *)
(* at the same time; the scan is over and an item has been taken.          *)
C20_Witness ==
    /\ Len(pool.files) = 3
    /\ pool.files[1] = "out/a/2.jpg"
    /\ master_hash_list["h1"] = "out/a/1.jpg"
    /\ PoolIdle
    /\ taken = 1
    /\ pc = "item"

----------------------------------------------------------------------------
(* Termination *)

(* download() is over: it returned, or an exception left it. *)
Terminated == pc \in {"done", "raised"}

(* The most passes of the try body a driver makes for one item. *)
MostAttempts == IF driver = "downloader" THEN 1 ELSE Ceiling

(* The cool-downs in the trace. *)
CoolDowns == Len(SelectSeq(Sleeps, LAMBDA secs : secs = CoolDown))

(* C21: over generators that each yield finitely many items, and whatever  *)
(* fails, download() of each driver comes to an end; for each item the     *)
(* try body is entered at most 1 (Downloader), 2 (Archiver) or 3 (Cloner)  *)
(* times and at most as many backoff sleeps are made; and a 60-second      *)
(* cool-down is slept at most once per generator: the step that sleeps it  *)
(* leaves the generator for good.                                          *)
C21_TerminatesWithinCeilings ==
    /\ <>Terminated
    /\ [](taken > 0 => /\ Len(Attempts) <= MostAttempts
                       /\ Len(Sleeps) <= MostAttempts
                       /\ CoolDowns = 0)
    /\ [](taken = 0 => Len(Sleeps) = CoolDowns /\ CoolDowns <= 1)
    /\ [][/\ g' >= g
          /\ (CoolDowns' > 0 /\ trace' # trace) => g' = g + 1]_<<g, trace>>

(* The Cloner has used its three attempts and its three sleeps on an item  *)
(* of the second generator and left the item behind.                       *)
C21_Witness ==
    /\ driver = "cloner"
    /\ g = 2
    /\ ItemEnded
    /\ Len(Attempts) = 3
    /\ Len(Sleeps) = 3

====
